---- MODULE Spec2Model ----
(***************************************************************************)
(* A model of tig's src/io.c: the process handle (struct io), the stream   *)
(* reader io_get with its growable buffer, the launcher io_exec, io_kill,  *)
(* the reaper io_done and the single-shot consumers io_read_buf/io_load.   *)
(*                                                                         *)
(* Offsets into io->buf are 0-based, as in C; the byte at offset k of a    *)
(* buffer b is b[k + 1].                                                   *)
(***************************************************************************)
EXTENDS Integers, Sequences, FiniteSets, TLC

\* ------------------------------------------------------------------ bounds
\* Longest input fed to a handle.
MaxLen == 4
\* The allocation chunk of io_realloc_buf (stdio's BUFSIZ), scaled down so
\* that inputs of MaxLen bytes cross several chunks.
BUFSIZ == 2
\* Interrupted waits (EINTR) one io_done may see.
MaxIntr == 1
\* Longest input fed to io_load / io_read_buf.
MaxLoadLen == 3
\* Size of io_read_buf's destination (SIZEOF_STR in the callers), scaled down.
DestSize == 3
\* io_kill calls on one handle.
MaxKill == 2
\* io_done calls the user makes on one handle.
MaxDone == 2
\* sizeof(buf) of io_printf's scratch buffer (SIZEOF_STR), scaled down so
\* that expansions of a few bytes do not fit.
FmtSize == 2
\* io_printf calls on one handle.
MaxPrintf == 2

\* --------------------------------------------------------------- constants
NUL == 0
LF == 10
LetterA == 97
Colon == 58
Space == 32
Byte == {NUL, LF, LetterA}

ENOENT == 2
EIO == 5
EBADF == 9
ECHILD == 10
EAGAIN == 11
EMFILE == 24
ENAMETOOLONG == 36
SIGKILL == 9

OK == 0
ERR == -1

\* A descriptor the program already holds when the handle is made (what
\* io_run_append passes as IO_AP's custom).
CallerFd == 3

\* All byte strings of length at most n over the alphabet S.
RECURSIVE SeqsUpTo(_, _)
SeqsUpTo(S, n) ==
    IF n = 0 THEN {<<>>}
    ELSE LET shorter == SeqsUpTo(S, n - 1)
         IN  shorter \cup {Append(s, b) : s \in {t \in shorter : Len(t) = n - 1}, b \in S}

Inputs == SeqsUpTo(Byte, MaxLen)

Min(a, b) == IF a < b THEN a ELSE b

\* ------------------------------------------------------------ libc helpers
\* memchr(base + pos, c, n): the offset of the first c among the n bytes at
\* offset pos, or -1 for a null result.
Memchr(b, pos, c, n) ==
    LET hits == {i \in pos .. (pos + n - 1) : i < Len(b) /\ b[i + 1] = c}
    IN  IF hits = {} THEN -1 ELSE CHOOSE i \in hits : \A j \in hits : i <= j

\* The C string starting at offset pos of b: the bytes before the first NUL.
\* limit is the offset one past the last byte known to be followed by a NUL.
CStr(b, pos, limit) ==
    LET nul == Memchr(b, pos, NUL, limit - pos)
    IN  IF nul = -1 THEN SubSeq(b, pos + 1, limit) ELSE SubSeq(b, pos + 1, nul)

\* b with byte v stored at offset k.
Store(b, k, v) == [b EXCEPT ![k + 1] = v]

Zeros(n) == [i \in 1 .. n |-> NUL]

\* ------------------------------------------------------------------- state
VARIABLES
    io,         \* struct io: pipe, pid, error, status, eof, buf, bufalloc, bufsize, bufpos
    pc,         \* where the caller's thread is
    caller,     \* the operation that called io_get / io_done ("none": the user)
    args,       \* arguments of the io_get call in progress
    line,       \* result of the last io_get: [null, str]
    ret,        \* result of the last boolean operation
    out,        \* tokens io_get has returned to the user, in order
    input,      \* the bytes the data source holds in total
    delim,      \* the delimiter the user tokenizes with
    stream,     \* bytes of the source not yet read through io.pipe
    fds,        \* descriptors open in the parent
    hist,       \* what has happened to the handle: faults and counters
    child,      \* the process forked by io_exec, as the kernel sees it
    signals,    \* the kill() calls made so far: [pid, sig]
    state,      \* io_load's state
    calls,      \* io_load's callback invocations: [name, value, result]
    dest,       \* io_read_buf's destination buffer, as a C string
    encodings,  \* the registry of encoding records, newest first
    encCall,    \* the last encoding_open / get_path_encoding call and its result
    sink,       \* the bytes write() has accepted on the handle's descriptor
    fmt         \* the last io_printf call: its expansion and what io_write was given

procVars == <<child, signals>>
loadVars == <<state, calls, dest>>
encVars == <<encodings, encCall>>
writeVars == <<sink, fmt>>

vars == <<io, pc, caller, args, line, ret, out, input, delim, stream, fds, hist,
          child, signals, state, calls, dest, encodings, encCall, sink, fmt>>

NoLine == [null |-> TRUE, str |-> <<>>]

\* io_init: memset(io, 0) and pipe = -1.  A null buf is the empty sequence.
IoInit ==
    [pipe |-> -1, pid |-> 0, error |-> 0, status |-> 0, eof |-> FALSE,
     buf |-> <<>>, bufalloc |-> 0, bufsize |-> 0, bufpos |-> 0]

NoHist ==
    [opened |-> FALSE,        \* the handle has been constructed
     how |-> "none",          \* by what: a constructor, or how io_exec ended
     type |-> "none",         \* the type io_exec was given
     pipefds |-> <<-1, -1>>,  \* io_exec's pipefds when it forked
     waited |-> "none",       \* the last waitpid: "pid" (the child) or "failed"
     op |-> "none",           \* the last single-shot consumer that returned
     dones |-> 0,             \* io_done calls
     doneRet |-> TRUE,        \* what the last io_done returned
     intr |-> 0,              \* interrupted waits
     kills |-> 0,             \* io_kill calls
     got |-> FALSE,           \* io_get has returned at least once
     last |-> "none",         \* why the last io_get returned: "token", "eof",
                              \* "noread", "alloc" or "error"
     moved |-> FALSE,         \* io_get has compacted the buffer
     allocFailed |-> FALSE,   \* an allocation has failed
     readFailed |-> FALSE,    \* a read has failed
     oob |-> FALSE]           \* a store fell outside the buffer's allocation

\* No encoding call has been made; a null struct encoding * is 0.
NoEncCall == [op |-> "none", path |-> <<>>, fromcode |-> <<>>, fallback |-> 0, ret |-> 0,
              created |-> FALSE, cd |-> "none", retried |-> FALSE,
              attr |-> [run |-> FALSE, out |-> <<>>, done |-> FALSE],
              file |-> [run |-> FALSE, out |-> <<>>, done |-> FALSE],
              sniffed |-> FALSE]

\* No io_printf call has been made.
NoFmt == [calls |-> 0, expansion |-> <<>>, called |-> FALSE, given |-> <<>>]

\* No process has been forked.
NoChild == [pid |-> 0, state |-> "none", wstatus |-> 0,
            stdin |-> "none", stdout |-> "none", stderr |-> "none"]

\* The lowest descriptor number not in use (0..2 are the standard streams).
NewFd(used) == CHOOSE n \in 3 .. (3 + Cardinality(used)) :
                   n \notin used /\ \A m \in 3 .. (n - 1) : m \in used

\* ------------------------------------------------------- growable buffer
\* DEFINE_ALLOCATOR(io_realloc_buf, char, BUFSIZ): the chunks needed for
\* size bytes.
Chunks(size) == (size + BUFSIZ - 1) \div BUFSIZ

\* io_realloc_buf(&mem, size, increase): [null, mem].  The store is
\* reallocated only when the number of chunks changes; new chunks are
\* zeroed; on failure the old store is kept and a null pointer returned.
\* allocOk is the outcome of realloc.
IoReallocBuf(mem, size, increase, allocOk) ==
    LET newsize == Chunks(size + increase) * BUFSIZ
        keep == Min(Len(mem), newsize)
    IN  IF Chunks(size) # Chunks(size + increase)
        THEN IF allocOk
             THEN [null |-> FALSE, mem |-> SubSeq(mem, 1, keep) \o Zeros(newsize - keep)]
             ELSE [null |-> TRUE, mem |-> mem]
        ELSE [null |-> mem = <<>>, mem |-> mem]

\* A compaction that leaves the unread bytes where they are.
MemmoveSkipped(b, from, n) == b

\* memmove(b, b + from, n)
Memmove(b, from, n) ==
    [i \in 1 .. Len(b) |-> IF i <= n THEN b[from + i] ELSE b[i]]

\* memcpy(b + at, data, Len(data))
Memcpy(b, at, data) ==
    [i \in 1 .. Len(b) |-> IF i > at /\ i <= at + Len(data) THEN data[i - at] ELSE b[i]]

\* ----------------------------------------------------------------- io_open
\* io_open(io, fmt, ...): name is "" (dup of stdin), a path, or a path that
\* does not fit name[SIZEOF_STR]; sysOk is the outcome of open/dup.
OpenEffect(name, sysOk) ==
    /\ IF name = "toolong"
       THEN /\ io' = [IoInit EXCEPT !.error = ENAMETOOLONG]
            /\ ret' = FALSE
            /\ UNCHANGED <<fds, stream>>
       ELSE IF sysOk
       THEN /\ io' = [IoInit EXCEPT !.pipe = NewFd(fds)]
            /\ fds' = fds \cup {NewFd(fds)}
            /\ stream' = input
            /\ ret' = TRUE
       ELSE /\ io' = [IoInit EXCEPT !.error = IF name = "" THEN EMFILE ELSE ENOENT]
            /\ ret' = FALSE
            /\ UNCHANGED <<fds, stream>>

IoOpen(name, sysOk) ==
    /\ pc = "idle"
    /\ ~hist.opened
    /\ hist' = [hist EXCEPT !.opened = TRUE, !.how = "open"]
    /\ OpenEffect(name, sysOk)
    /\ UNCHANGED <<pc, caller, args, line, out, input, delim>>
    /\ UNCHANGED <<procVars, loadVars>>
    /\ UNCHANGED <<encVars, writeVars>>

\* ----------------------------------------------------------- io_from_string
\* io_from_string(io, str) with str the C string held in input.
IoFromString(allocOk) ==
    /\ pc = "idle"
    /\ ~hist.opened
    /\ LET str == CStr(input, 0, Len(input))
           len == Len(str)
           r == IoReallocBuf(IoInit.buf, IoInit.bufalloc, len, allocOk)
       IN  IF r.null
           THEN /\ io' = IoInit
                /\ ret' = FALSE
                /\ hist' = [hist EXCEPT !.opened = TRUE, !.how = "string",
                                         !.allocFailed = len > 0]
           ELSE /\ io' = [IoInit EXCEPT !.buf = Memcpy(r.mem, 0, str),
                                        !.bufsize = len, !.bufalloc = len,
                                        !.bufpos = 0, !.eof = TRUE]
                /\ ret' = TRUE
                /\ hist' = [hist EXCEPT !.opened = TRUE, !.how = "string"]
    /\ UNCHANGED <<pc, caller, args, line, out, input, delim, stream, fds>>
    /\ UNCHANGED <<procVars, loadVars>>
    /\ UNCHANGED <<encVars, writeVars>>

\* ------------------------------------------------------------------ io_read
\* read(fd, buf, count) as io_read sees it once EAGAIN/EINTR are retried:
\* n bytes, 0 at end of file, or -1 with errno.  A pipe is at end of file
\* once it is empty and the child, which holds its write end, is gone; until
\* then a read of the empty pipe blocks.
ReadResults(fd, count) ==
    IF fd \notin fds
    THEN {[n |-> -1, errno |-> EBADF]}
    ELSE {[n |-> -1, errno |-> EIO]}
         \cup (IF stream = <<>>
               THEN IF child.state = "running" /\ child.stdout = "pipe"
                    THEN {}
                    ELSE {[n |-> 0, errno |-> 0]}
               ELSE {[n |-> k, errno |-> 0] : k \in 1 .. Min(count, Len(stream))})

\* io_read(io, buf + at, count) with read's result r: the handle afterwards.
IoRead(h, at, r) ==
    IF r.n = -1 THEN [h EXCEPT !.error = r.errno]
    ELSE IF r.n = 0 THEN [h EXCEPT !.eof = TRUE]
    ELSE [h EXCEPT !.buf = Memcpy(@, at, SubSeq(stream, 1, r.n))]

\* ------------------------------------------------------------------- io_get
\* Where control goes when io_get returns, and what the user receives.
GetReturn(isNull, str, h) ==
    /\ line' = [null |-> isNull, str |-> str]
    /\ hist' = [h EXCEPT !.got = TRUE]
    /\ pc' = IF caller = "read_buf" THEN "rb_got"
             ELSE IF caller = "load" THEN "load_got"
             ELSE "idle"
    /\ out' = IF isNull \/ caller # "none" THEN out ELSE Append(out, str)

\* if (io->bufsize > 0): there are unread bytes to scan.
HasUnread(h) == h.bufsize > 0

\* An EOF branch that hands out the rest even when it is empty.
HasFinalTokenAlways(h) == h.bufsize >= 0

\* At EOF, if (io->bufsize): the unread rest is handed out as a last token.
HasFinalToken(h) == h.bufsize # 0

\* A read position that skips the byte after the delimiter.
AfterDelimiterSkipsOne(eol) == eol + 2

\* io->bufpos = eol + 1;
AfterDelimiter(eol) == eol + 1

\* The user calls io_get(io, c, can_read) on a handle that was constructed.
IoGet(c, can_read) ==
    /\ pc = "idle"
    /\ hist.opened
    /\ pc' = "get"
    /\ caller' = "none"
    /\ args' = [args EXCEPT !.c = c, !.can_read = can_read]
    /\ UNCHANGED <<io, line, ret, out, input, delim, stream, fds, hist>>
    /\ UNCHANGED <<procVars, loadVars>>
    /\ UNCHANGED <<encVars, writeVars>>

\* Top of io_get's loop: scan for the delimiter, then the EOF and can_read
\* checks.  The store of the final terminator at bufpos[bufsize] falls
\* outside the allocation when bufpos + bufsize is its size: the store then
\* either lands in whatever follows the block or the process is aborted.
GetScan ==
    /\ pc = "get"
    /\ LET eol == IF HasUnread(io)
                  THEN Memchr(io.buf, io.bufpos, args.c, io.bufsize)
                  ELSE -1
           end == io.bufpos + io.bufsize
           inside == end < Len(io.buf)
       IN  IF eol # -1
           THEN /\ io' = [io EXCEPT !.buf = Store(@, eol, NUL),
                                    !.bufpos = AfterDelimiter(eol),
                                    !.bufsize = @ - (AfterDelimiter(eol) - io.bufpos)]
                /\ GetReturn(FALSE, CStr(Store(io.buf, eol, NUL), io.bufpos, eol),
                             [hist EXCEPT !.last = "token"])
           ELSE IF io.eof
           THEN IF HasFinalToken(io)
                THEN \E abort \in (IF inside THEN {FALSE} ELSE BOOLEAN) :
                       /\ IF abort
                          THEN /\ pc' = "crashed"
                               /\ hist' = [hist EXCEPT !.oob = TRUE]
                               /\ UNCHANGED <<io, line, out>>
                          ELSE /\ io' = [io EXCEPT
                                           !.buf = IF inside THEN Store(@, end, NUL) ELSE @,
                                           !.bufpos = end,
                                           !.bufsize = 0]
                               /\ GetReturn(FALSE, CStr(io.buf, io.bufpos, end),
                                            [hist EXCEPT !.oob = @ \/ ~inside,
                                                         !.last = "token"])
                ELSE /\ GetReturn(TRUE, <<>>, [hist EXCEPT !.last = "eof"])
                     /\ UNCHANGED io
           ELSE IF ~args.can_read
           THEN /\ GetReturn(TRUE, <<>>, [hist EXCEPT !.last = "noread"])
                /\ UNCHANGED io
           ELSE /\ pc' = "fill"
                /\ UNCHANGED <<io, line, out, hist>>
    /\ UNCHANGED <<caller, args, ret, input, delim, stream, fds>>
    /\ UNCHANGED <<procVars, loadVars>>
    /\ UNCHANGED <<encVars, writeVars>>

\* A loop body that grows the buffer at every pass.
NeedsGrowthAlways(h) == TRUE

\* if (io->bufalloc == io->bufsize)
NeedsGrowth(h) == h.bufalloc = h.bufsize

\* The rest of the loop body: compaction, growth, one io_read.
GetFill ==
    /\ pc = "fill"
    /\ LET move == io.bufsize > 0 /\ io.bufpos > 0
           io1 == IF move
                  THEN [io EXCEPT !.buf = Memmove(@, io.bufpos, io.bufsize)]
                  ELSE io
           full == NeedsGrowth(io1)
           h1 == [hist EXCEPT !.moved = @ \/ move]
       IN  \E allocOk \in (IF full THEN BOOLEAN ELSE {TRUE}) :
             LET r == IoReallocBuf(io1.buf, io1.bufalloc, BUFSIZ, allocOk)
             IN  IF full /\ r.null
                 THEN /\ io' = io1
                      /\ GetReturn(TRUE, <<>>, [h1 EXCEPT !.allocFailed = TRUE,
                                                           !.last = "alloc"])
                      /\ UNCHANGED stream
                 ELSE LET io2 == IF full
                                 THEN [io1 EXCEPT !.buf = r.mem, !.bufalloc = @ + BUFSIZ]
                                 ELSE io1
                          io3 == [io2 EXCEPT !.bufpos = 0]
                      IN  \E rd \in ReadResults(io3.pipe, io3.bufalloc - io3.bufsize) :
                            LET io4 == IoRead(io3, io3.bufsize, rd)
                            IN  /\ stream' = IF rd.n > 0
                                             THEN SubSeq(stream, rd.n + 1, Len(stream))
                                             ELSE stream
                                /\ IF io4.error # 0
                                   THEN /\ io' = io4
                                        /\ GetReturn(TRUE, <<>>,
                                               [h1 EXCEPT !.readFailed = @ \/ rd.n = -1,
                                                          !.last = "error"])
                                   ELSE /\ io' = [io4 EXCEPT !.bufsize = @ + rd.n]
                                        /\ pc' = "get"
                                        /\ hist' = h1
                                        /\ UNCHANGED <<line, out>>
    /\ UNCHANGED <<caller, args, ret, input, delim, fds>>
    /\ UNCHANGED <<procVars, loadVars>>
    /\ UNCHANGED <<encVars, writeVars>>

\* ------------------------------------------------------------ the reader
\* A handle opened on a file or on stdin, read token by token.
InitCommon ==
    /\ io = IoInit
    /\ pc = "idle"
    /\ caller = "none"
    /\ args = [c |-> LF, can_read |-> TRUE, pid |-> 0]
    /\ line = NoLine
    /\ ret = TRUE
    /\ out = <<>>
    /\ stream = <<>>
    /\ fds = {CallerFd}
    /\ hist = NoHist
    /\ child = NoChild
    /\ signals = <<>>
    /\ state = OK
    /\ calls = <<>>
    /\ dest = <<>>
    /\ encodings = <<>>
    /\ encCall = NoEncCall
    /\ sink = <<>>
    /\ fmt = NoFmt

InitRead ==
    /\ InitCommon
    /\ input \in Inputs
    /\ delim \in Byte

NextRead ==
    \/ \E name \in {"", "path", "toolong"}, sysOk \in BOOLEAN : IoOpen(name, sysOk)
    \/ IoGet(delim, TRUE)
    \/ GetScan
    \/ GetFill

SpecRead == InitRead /\ [][NextRead]_vars

\* A handle made from a string, read line by line.
InitStr ==
    /\ InitCommon
    /\ input \in Inputs
    /\ delim = LF

NextStr ==
    \/ \E allocOk \in BOOLEAN : IoFromString(allocOk)
    \/ IoGet(delim, TRUE)
    \/ GetScan
    \/ GetFill

SpecStr == InitStr /\ [][NextStr]_vars

\* ------------------------------------------------- claims on the reader
\* The tokens of data at delimiter c, defined without any buffer: the pieces
\* ended by c, then the unterminated rest if it is not empty, each as the C
\* string its first byte starts.
RECURSIVE Tokens(_, _)
Tokens(data, c) ==
    IF data = <<>> THEN <<>>
    ELSE LET i == Memchr(data, 0, c, Len(data))
         IN  IF i = -1
             THEN <<CStr(data, 0, Len(data))>>
             ELSE <<CStr(data, 0, i)>> \o Tokens(SubSeq(data, i + 2, Len(data)), c)

IsPrefix(s, t) == Len(s) <= Len(t) /\ SubSeq(t, 1, Len(s)) = s

\* No allocation and no read has failed so far.
NoFault == ~hist.allocFailed /\ ~hist.readFailed

\* io_get has just returned NULL to the user.
GotNull == pc = "idle" /\ hist.got /\ line.null

\* C1: whatever chunks the reads deliver, the tokens io_get(io, delim, TRUE)
\* returns up to its NULL are the tokens of the whole input, the same for
\* every chunking and hence the same as for a single read; no byte is lost
\* or duplicated by compaction or growth.  (Reads and allocations succeed.)
C1_ChunkIndependent ==
    (hist.opened /\ ret /\ NoFault) =>
        /\ pc # "crashed"
        /\ IsPrefix(out, Tokens(input, delim))
        /\ GotNull => (out = Tokens(input, delim) /\ stream = <<>>)

\* C1 witness: a stream read to its end in more than one chunk, with growth
\* past the first chunk and a compaction, that gave at least two tokens.
C1_Witness ==
    /\ hist.opened /\ ret /\ NoFault /\ GotNull
    /\ Len(out) >= 2
    /\ hist.moved
    /\ io.bufalloc > BUFSIZ

\* The string io_from_string was given.
Str == CStr(input, 0, Len(input))

\* The handle was made by a successful io_from_string.
FromStringOk == hist.opened /\ ret /\ ~hist.readFailed

\* s split at every newline: always at least one line, the last one is what
\* follows the last newline.
RECURSIVE Split(_)
Split(s) ==
    LET i == Memchr(s, 0, LF, Len(s))
    IN  IF i = -1 THEN <<s>>
        ELSE <<SubSeq(s, 1, i)>> \o Split(SubSeq(s, i + 2, Len(s)))

\* s without its last byte.
Front(s) == SubSeq(s, 1, Len(s) - 1)

EndsWithNewline(s) == s # <<>> /\ s[Len(s)] = LF

\* C2: for Str = L1 \n ... \n Ln with a non-empty Ln, extraction never
\* aborts, yields L1..Ln in order, and NULL from then on.
C2_LinesWithoutTrailingNewline ==
    (FromStringOk /\ Str # <<>> /\ ~EndsWithNewline(Str)) =>
        /\ pc # "crashed"
        /\ IsPrefix(out, Split(Str))
        /\ GotNull => out = Split(Str)

\* C3: for Str = L1 \n ... \n Ln \n, extraction yields L1..Ln and then NULL
\* on every further call: no empty token for the region after the last
\* newline.
C3_TrailingNewline ==
    (FromStringOk /\ EndsWithNewline(Str)) =>
        /\ pc # "crashed"
        /\ IsPrefix(out, Split(Front(Str)))
        /\ GotNull => out = Split(Front(Str))

\* C3 witness: two newline-terminated lines were extracted and NULL followed.
C3_Witness ==
    /\ FromStringOk /\ EndsWithNewline(Str) /\ GotNull
    /\ Len(out) = 2
    /\ io.bufpos = Len(Str)

\* ----------------------------------------------------------------- io_exec
Types == {"IO_RD", "IO_WR", "IO_AP", "IO_FG", "IO_BG"}

\* The pid fork() gives the child.
ChildPid == 7

\* custom & IO_RD_FORWARD_STDIN, custom & IO_RD_WITH_STDERR
ReadFromStdin(type, custom) == type = "IO_RD" /\ custom >= 0 /\ custom % 2 = 1
ReadWithStderr(type, custom) == type = "IO_RD" /\ custom >= 0 /\ (custom \div 2) % 2 = 1

\* pipe(pipefds) in a process with the descriptors used open.
PipeFds(used) == <<NewFd(used), NewFd(used \cup {NewFd(used)})>>

\* close(fd), for an fd that may be -1 or not open.
Close(open, fd) == open \ {fd}

\* The end kept for the wrong direction.
KeptEndSwapped(type) == IF type = "IO_WR" THEN 1 ELSE 2

\* pipefds[!!(type == IO_WR)], as an index from 1: the end the parent keeps.
KeptEnd(type) == IF type = "IO_WR" THEN 2 ELSE 1

\* pipefds[!(type == IO_WR)]: the end the parent closes after fork.
OtherEnd(type) == IF type = "IO_WR" THEN 1 ELSE 2

\* A failed fork whose errno is not recorded.
AfterForkNoError(h, pid, errno) == [h EXCEPT !.pid = pid]

\* if ((io->pid = fork())) { if (io->pid == -1) io->error = errno; ...
AfterFork(h, pid, errno) ==
    IF pid = -1 THEN [h EXCEPT !.pid = pid, !.error = errno] ELSE [h EXCEPT !.pid = pid]

\* The child's standard streams once it has rewired them (the else branch
\* of the fork); traced is whether open_trace gave a trace file.
ChildStreams(type, custom, traced) ==
    IF type = "IO_FG"
    THEN [stdin |-> "inherited", stdout |-> "inherited", stderr |-> "inherited"]
    ELSE [stdin |-> IF ReadFromStdin(type, custom) THEN "stdin"
                    ELSE IF type = "IO_WR" THEN "pipe" ELSE "null",
          stdout |-> IF type = "IO_RD" THEN "pipe"
                     ELSE IF type = "IO_AP" THEN "custom" ELSE "null",
          stderr |-> IF ReadWithStderr(type, custom) THEN "pipe"
                     ELSE IF traced THEN "trace" ELSE "null"]

\* io_exec(io, type, dir, env, argv, custom).  virtual: dir equals argv[0],
\* and name is then the path dir + argv[1]; sysOk: open (or pipe) succeeds;
\* forkOk: fork succeeds.
IoExec(type, virtual, custom, name, sysOk, forkOk, traced) ==
    /\ pc = "idle"
    /\ ~hist.opened
    /\ IF virtual
       THEN /\ OpenEffect(name, sysOk)
            /\ hist' = [hist EXCEPT !.opened = TRUE, !.how = "virtual", !.type = type]
            /\ UNCHANGED child
       ELSE IF type \in {"IO_RD", "IO_WR"} /\ ~sysOk
       THEN /\ io' = [IoInit EXCEPT !.error = EMFILE]
            /\ ret' = FALSE
            /\ hist' = [hist EXCEPT !.opened = TRUE, !.how = "pipe_failed",
                                    !.type = type]
            /\ UNCHANGED <<fds, stream, child>>
       ELSE LET pipefds == IF type \in {"IO_RD", "IO_WR"} THEN PipeFds(fds)
                           ELSE IF type = "IO_AP" THEN <<-1, custom>>
                           ELSE <<-1, -1>>
                pid == IF forkOk THEN ChildPid ELSE -1
                io1 == AfterFork(IoInit, pid, EAGAIN)
                fds1 == Close(fds \cup {fd \in {pipefds[1], pipefds[2]} : fd # -1},
                              pipefds[OtherEnd(type)])
            IN  IF pid # -1
                THEN /\ io' = [io1 EXCEPT !.pipe = pipefds[KeptEnd(type)]]
                     /\ fds' = fds1
                     /\ ret' = TRUE
                     /\ child' = [pid |-> pid, state |-> "running", wstatus |-> 0]
                                     @@ ChildStreams(type, custom, traced)
                     /\ stream' = IF type = "IO_RD" THEN input ELSE stream
                     /\ hist' = [hist EXCEPT !.opened = TRUE, !.how = "forked",
                                             !.type = type, !.pipefds = pipefds]
                ELSE /\ io' = io1
                     /\ fds' = Close(fds1, pipefds[KeptEnd(type)])
                     /\ ret' = FALSE
                     /\ hist' = [hist EXCEPT !.opened = TRUE, !.how = "fork_failed",
                                             !.type = type, !.pipefds = pipefds]
                     /\ UNCHANGED <<stream, child>>
    /\ UNCHANGED <<pc, caller, args, line, out, input, delim, signals, loadVars>>
    /\ UNCHANGED <<encVars, writeVars>>

\* io_run(io, type, dir, env, argv): io_exec with custom 0.
IoRun(type, virtual, name, sysOk, forkOk, traced) ==
    IoExec(type, virtual, 0, name, sysOk, forkOk, traced)

\* ------------------------------------------------------------- the child
\* __W_EXITCODE(ret, sig): the wait status of a child that exited with ret
\* (sig 0) or was killed by sig.
WExitCode(code, sig) == code * 256 + sig

\* WEXITSTATUS, WTERMSIG, WIFSIGNALED of <sys/wait.h>
WEXITSTATUS(status) == (status \div 256) % 256
WTERMSIG(status) == status % 128
WIFSIGNALED(status) == WTERMSIG(status) \notin {0, 127}

\* The wait statuses a child can end with: exit 0, exit 2, killed by a
\* signal, and a status carrying both a signal and an exit-status byte.
WaitStatuses ==
    {WExitCode(0, 0), WExitCode(2, 0), WExitCode(0, SIGKILL), WExitCode(2, SIGKILL)}

\* The child terminates by itself (exit, a failed chdir or execvp, a signal
\* from elsewhere).
ChildExit(wstatus) ==
    /\ child.state = "running"
    /\ child' = [child EXCEPT !.state = "zombie", !.wstatus = wstatus]
    /\ UNCHANGED <<io, pc, caller, args, line, ret, out, input, delim, stream, fds,
                   hist, signals, loadVars>>
    /\ UNCHANGED <<encVars, writeVars>>

\* The terminated child is reaped behind the handle's back (SIGCHLD
\* ignored, or a wait elsewhere in the program).
EnvReap ==
    /\ child.state = "zombie"
    /\ child' = [child EXCEPT !.state = "gone"]
    /\ UNCHANGED <<io, pc, caller, args, line, ret, out, input, delim, stream, fds,
                   hist, signals, loadVars>>
    /\ UNCHANGED <<encVars, writeVars>>

\* ----------------------------------------------------------------- io_kill
\* kill(pid, SIGKILL) finds a process: pid names the child while it is in
\* the process table; pid -1 names every process the caller may signal.
KillDelivered(pid) ==
    \/ pid = -1
    \/ pid > 0 /\ pid = child.pid /\ child.state \in {"running", "zombie"}

\* An io_kill that signals whatever pid the handle holds.
ShouldSignalAlways(h) == TRUE

\* io->pid == 0 || ...: kill is called only for a non-zero pid.
ShouldSignal(h) == h.pid # 0

\* io_kill(io)
IoKill ==
    /\ pc = "idle"
    /\ hist.opened
    /\ hist.kills < MaxKill
    /\ hist' = [hist EXCEPT !.kills = @ + 1]
    /\ IF ShouldSignal(io)
       THEN /\ signals' = Append(signals, [pid |-> io.pid, sig |-> SIGKILL])
            /\ ret' = KillDelivered(io.pid)
            /\ child' = IF KillDelivered(io.pid) /\ child.state = "running"
                        THEN [child EXCEPT !.state = "zombie",
                                           !.wstatus = WExitCode(0, SIGKILL)]
                        ELSE child
       ELSE /\ ret' = TRUE
            /\ UNCHANGED <<signals, child>>
    /\ UNCHANGED <<io, pc, caller, args, line, out, input, delim, stream, fds, loadVars>>
    /\ UNCHANGED <<encVars, writeVars>>

\* ----------------------------------------------------------------- io_done
\* Where control goes when io_done returns v, and what its caller makes of
\* it: io_read_buf returns io_done(io) && result, io_load drops it.
\* An io_read_buf that reports only what io_done returned.
ReadBufResultDoneOnly(doneOk, result) == doneOk

\* return io_done(io) && result;
ReadBufResult(doneOk, result) == doneOk /\ result

DoneReturn(v, h) ==
    /\ pc' = "idle"
    /\ hist' = [h EXCEPT !.doneRet = v,
                         !.op = IF caller = "none" THEN @ ELSE caller]
    /\ ret' = IF caller = "read_buf" THEN ReadBufResult(v, ~line.null)
              ELSE IF caller = "load" THEN ret
              ELSE v

\* The user calls io_done(io).
IoDone ==
    /\ pc = "idle"
    /\ hist.opened
    /\ hist.dones < MaxDone
    /\ pc' = "done"
    /\ caller' = "none"
    /\ UNCHANGED <<io, args, line, ret, out, input, delim, stream, fds, hist,
                   procVars, loadVars>>
    /\ UNCHANGED <<encVars, writeVars>>

\* An io_done that leaves the descriptor open.
ClosesPipeNever(h) == FALSE

\* if (io->pipe != -1) close(io->pipe);
ClosesPipe(h) == h.pipe # -1

\* io_done up to its wait loop: the descriptor is closed, the buffer freed,
\* the handle reset; pid was saved first.
DoneEnter ==
    /\ pc = "done"
    /\ fds' = IF ClosesPipe(io) THEN Close(fds, io.pipe) ELSE fds
    /\ io' = IoInit
    /\ args' = [args EXCEPT !.pid = io.pid]
    /\ IF io.pid > 0
       THEN /\ pc' = "wait"
            /\ hist' = [hist EXCEPT !.dones = @ + 1, !.intr = 0]
            /\ UNCHANGED ret
       ELSE DoneReturn(TRUE, [hist EXCEPT !.dones = @ + 1, !.intr = 0])
    /\ UNCHANGED <<caller, line, out, input, delim, stream, procVars, loadVars>>
    /\ UNCHANGED <<encVars, writeVars>>

\* waitpid is interrupted: errno == EINTR, continue.
WaitIntr ==
    /\ pc = "wait"
    /\ child.state = "running"
    /\ hist.intr < MaxIntr
    /\ hist' = [hist EXCEPT !.intr = @ + 1]
    /\ UNCHANGED <<io, pc, caller, args, line, ret, out, input, delim, stream, fds,
                   procVars, loadVars>>
    /\ UNCHANGED <<encVars, writeVars>>

\* waitpid fails for another reason: there is no such child to wait for.
WaitFail ==
    /\ pc = "wait"
    /\ ~(child.pid = args.pid /\ child.state \in {"running", "zombie"})
    /\ io' = [io EXCEPT !.error = ECHILD]
    /\ DoneReturn(FALSE, [hist EXCEPT !.waited = "failed"])
    /\ UNCHANGED <<caller, args, line, out, input, delim, stream, fds, procVars, loadVars>>
    /\ UNCHANGED <<encVars, writeVars>>

\* A handle whose status is left as io_init set it.
StatusAfterWaitDropped(h, status) == h

\* if (WEXITSTATUS(status)) io->status = WEXITSTATUS(status);
StatusAfterWait(h, status) ==
    IF WEXITSTATUS(status) # 0 THEN [h EXCEPT !.status = WEXITSTATUS(status)] ELSE h

\* A result that does not look at how the child was terminated.
DoneResultNoSignalCheck(h, waiting, pid, status) == waiting = pid /\ h.status = 0

\* return waiting == pid && !WIFSIGNALED(status) && !io->status;
DoneResult(h, waiting, pid, status) ==
    waiting = pid /\ ~WIFSIGNALED(status) /\ h.status = 0

\* waitpid returns the terminated child with its status; the child is reaped.
WaitReap ==
    /\ pc = "wait"
    /\ child.pid = args.pid
    /\ child.state = "zombie"
    /\ child' = [child EXCEPT !.state = "gone"]
    /\ io' = StatusAfterWait(io, child.wstatus)
    /\ DoneReturn(DoneResult(StatusAfterWait(io, child.wstatus), child.pid, args.pid,
                             child.wstatus), [hist EXCEPT !.waited = "pid"])
    /\ UNCHANGED <<caller, args, line, out, input, delim, stream, fds, signals, loadVars>>
    /\ UNCHANGED <<encVars, writeVars>>

\* ------------------------------------------------- the process lifecycle
\* A handle launched with io_exec, possibly killed, then finalized.
InitProc ==
    /\ InitCommon
    /\ input = <<LetterA, LF>>
    /\ delim = LF

NextProc ==
    \/ \E type \in Types, virtual \in BOOLEAN, custom \in {-1, 0, 1, 2, CallerFd},
          name \in {"path", "toolong"}, sysOk \in BOOLEAN, forkOk \in BOOLEAN,
          traced \in BOOLEAN :
          /\ type = "IO_AP" => custom = CallerFd
          /\ type \in {"IO_FG", "IO_BG"} => custom = -1
          /\ IoExec(type, virtual, custom, name, sysOk, forkOk, traced)
    \/ \E wstatus \in WaitStatuses : ChildExit(wstatus)
    \/ EnvReap
    \/ IoKill
    \/ IoDone
    \/ DoneEnter
    \/ WaitIntr
    \/ WaitFail
    \/ WaitReap

SpecProc == InitProc /\ [][NextProc]_vars

\* ------------------------------------- claims on the process lifecycle
\* The first io_done on a handle with a forked child has returned.
DoneReturned == pc = "idle" /\ hist.how = "forked" /\ hist.dones = 1

\* C4: for a handle with a tracked child io_done succeeds exactly when the
\* wait returned the child's pid, the child was not killed by a signal and
\* its exit status was zero; a signalled child means failure whatever the
\* exit-status byte of the wait status, exit status 0 means success.
C4_DoneSuccessIff ==
    DoneReturned =>
        /\ hist.doneRet <=> /\ hist.waited = "pid"
                            /\ ~WIFSIGNALED(child.wstatus)
                            /\ WEXITSTATUS(child.wstatus) = 0
        /\ (hist.waited = "pid" /\ WIFSIGNALED(child.wstatus)) => ~hist.doneRet
        /\ (hist.waited = "pid" /\ child.wstatus = WExitCode(0, 0)) => hist.doneRet

\* C4 witness: io_done has reaped a child killed by a signal whose wait
\* status also carries a non-zero exit-status byte, and reported failure.
C4_Witness ==
    /\ DoneReturned
    /\ hist.waited = "pid"
    /\ child.wstatus = WExitCode(2, SIGKILL)
    /\ ~hist.doneRet

\* C5: after io_done has reaped a child with exit status n, the handle's
\* status field is n (0 for a clean exit): io_init ran before the wait and
\* does not erase it; a non-zero n makes io_done report failure.
C5_ExitStatusKept ==
    (DoneReturned /\ hist.waited = "pid") =>
        /\ io.status = WEXITSTATUS(child.wstatus)
        /\ WEXITSTATUS(child.wstatus) # 0 => ~hist.doneRet

\* C5 witness: a child that exited with status 2 was finalized: failure is
\* reported and the status field holds 2.
C5_Witness ==
    /\ DoneReturned
    /\ hist.waited = "pid"
    /\ child.wstatus = WExitCode(2, 0)
    /\ io.status = 2
    /\ ~hist.doneRet

\* io_exec has just returned: nothing was done to the handle since.
ExecReturned == pc = "idle" /\ hist.dones = 0 /\ hist.kills = 0

\* C6: when pipe or fork fails, io_exec returns failure, the error field
\* holds the non-zero errno of the failed call and no child runs.
C6_ExecFailure ==
    (ExecReturned /\ hist.how \in {"pipe_failed", "fork_failed"}) =>
        /\ ~ret
        /\ io.error # 0
        /\ io.error = IF hist.how = "pipe_failed" THEN EMFILE ELSE EAGAIN
        /\ child.state = "none"

\* C6 witness: fork failed after the pipe had been made.
C6_Witness ==
    /\ ExecReturned
    /\ hist.how = "fork_failed"
    /\ hist.pipefds[1] # -1
    /\ ~ret
    /\ io.error = EAGAIN

\* The descriptors the parent holds beyond those it had before io_exec.
Retained == fds \ {CallerFd}

\* C7: after a successful launch the parent retains exactly one of the
\* descriptors io_exec created, the one in the handle: the pipe's read end
\* for IO_RD, its write end for IO_WR, the other end being closed; for IO_FG
\* nothing is retained and the handle's descriptor is -1.  The handle's pid
\* is the forked child's.
C7_ParentKeepsOneEnd ==
    (hist.how = "forked" /\ hist.dones = 0) =>
        /\ io.pid = child.pid /\ io.pid > 0
        /\ hist.type = "IO_RD" =>
              /\ io.pipe = hist.pipefds[1]
              /\ Retained = {hist.pipefds[1]}
              /\ hist.pipefds[2] \notin fds
        /\ hist.type = "IO_WR" =>
              /\ io.pipe = hist.pipefds[2]
              /\ Retained = {hist.pipefds[2]}
              /\ hist.pipefds[1] \notin fds
        /\ hist.type = "IO_FG" =>
              /\ io.pipe = -1
              /\ Retained = {}

\* C7 witness: a Write-type launch succeeded and the parent holds the write
\* end only.
C7_Witness ==
    /\ hist.how = "forked" /\ hist.dones = 0
    /\ hist.type = "IO_WR"
    /\ io.pipe = hist.pipefds[2]
    /\ hist.pipefds[1] \notin fds
    /\ child.state = "running"

\* C8: io_kill on a handle without a child (pid 0) succeeds and sends no
\* signal; with a tracked child it sends SIGKILL to it and succeeds iff the
\* signal was delivered; it never reaps the child, closes a descriptor or
\* changes a field of the handle.
C8_KillFrame ==
    [][hist'.kills # hist.kills =>
         /\ io' = io
         /\ fds' = fds
         /\ child'.state = "gone" <=> child.state = "gone"
         /\ io.pid = 0 => (ret' /\ signals' = signals)
         /\ io.pid > 0 =>
               /\ signals' = Append(signals, [pid |-> io.pid, sig |-> SIGKILL])
               /\ ret' <=> KillDelivered(io.pid)]_vars

\* C8 witness: a running child was killed through its handle; it is now a
\* zombie the handle still tracks, waiting for io_done.
C8_Witness ==
    /\ hist.kills = 1 /\ hist.dones = 0
    /\ ret
    /\ signals = <<[pid |-> ChildPid, sig |-> SIGKILL]>>
    /\ io.pid = ChildPid
    /\ child.state = "zombie"
    /\ child.wstatus = WExitCode(0, SIGKILL)

\* ------------------------------------------------------------ string helpers
\* isspace(), on the bytes of the model.
IsSpace(b) == b \in {Space, LF}

RECURSIVE TrimLeft(_)
TrimLeft(s) == IF s # <<>> /\ IsSpace(s[1]) THEN TrimLeft(Tail(s)) ELSE s

RECURSIVE TrimRight(_)
TrimRight(s) == IF s # <<>> /\ IsSpace(s[Len(s)]) THEN TrimRight(Front(s)) ELSE s

\* chomp_string(s): s without the white space around it.
ChompString(s) == TrimRight(TrimLeft(s))

\* strcspn(s, separators)
Strcspn(s, separators) ==
    LET hits == {i \in 1 .. Len(s) : s[i] \in separators}
    IN  IF hits = {} THEN Len(s) ELSE (CHOOSE i \in hits : \A j \in hits : i <= j) - 1

\* string_ncopy_do(dst, dstlen, src, strlen(src)): src cut to fit dst.
StringNcopy(dstlen, src) == SubSeq(src, 1, Min(Len(src), dstlen - 1))

\* -------------------------------------------------------------- io_read_buf
\* A single-shot consumer is applied to a constructed, untouched handle.
Untouched == hist.opened /\ hist.op = "none" /\ hist.dones = 0 /\ ~hist.got

\* io_read_buf(io, buf, bufsize): the call of io_get(io, '\n', TRUE).
IoReadBuf ==
    /\ pc = "idle"
    /\ Untouched
    /\ pc' = "get"
    /\ caller' = "read_buf"
    /\ args' = [args EXCEPT !.c = LF, !.can_read = TRUE]
    /\ UNCHANGED <<io, line, ret, out, input, delim, stream, fds, hist,
                   procVars, loadVars>>
    /\ UNCHANGED <<encVars, writeVars>>

\* io_get has returned: copy the chomped token, if any, then call io_done.
ReadBufGot ==
    /\ pc = "rb_got"
    /\ dest' = IF line.null THEN dest ELSE StringNcopy(DestSize, ChompString(line.str))
    /\ pc' = "done"
    /\ UNCHANGED <<io, caller, args, line, ret, out, input, delim, stream, fds, hist,
                   procVars, state, calls>>
    /\ UNCHANGED <<encVars, writeVars>>

\* ------------------------------------------------------------------ io_load
\* The separators io_load is given.
Separators == {Colon}

\* while (state == OK && ...
LoadContinues(st) == st = OK

\* A result that ignores the handle's error.
LoadResultIgnoringError(st, h) == st

\* if (state != ERR && io_error(io)) state = ERR;
LoadResult(st, h) == IF st # ERR /\ h.error # 0 THEN ERR ELSE st

\* The name and value io_load splits a token into.
NameValue(token) ==
    LET name == ChompString(token)
        namelen == Strcspn(name, Separators)
    IN  IF namelen < Len(name)
        THEN [name |-> SubSeq(name, 1, namelen),
              value |-> ChompString(SubSeq(name, namelen + 2, Len(name)))]
        ELSE [name |-> name, value |-> <<>>]

\* io_load(io, separators, read_property, data): state = OK and, state being
\* OK, the first call of io_get(io, '\n', TRUE).
IoLoad ==
    /\ pc = "idle"
    /\ Untouched
    /\ state' = OK
    /\ pc' = "get"
    /\ caller' = "load"
    /\ args' = [args EXCEPT !.c = LF, !.can_read = TRUE]
    /\ UNCHANGED <<io, line, ret, out, input, delim, stream, fds, hist,
                   procVars, calls, dest>>
    /\ UNCHANGED <<encVars, writeVars>>

\* io_get has returned inside io_load's loop.  A token is split and handed
\* to read_property, which returns result; the loop goes on with the next
\* io_get while state is OK.  After the loop a read error turns the state
\* into ERR, and io_done is called.
LoadGot(result) ==
    /\ pc = "load_got"
    /\ IF line.null
       THEN /\ state' = LoadResult(state, io)
            /\ pc' = "done"
            /\ UNCHANGED calls
       ELSE /\ calls' = Append(calls, [token |-> line.str, result |-> result]
                                          @@ NameValue(line.str))
            /\ IF LoadContinues(result)
               THEN /\ state' = result
                    /\ pc' = "get"
               ELSE /\ state' = LoadResult(result, io)
                    /\ pc' = "done"
    /\ UNCHANGED <<io, caller, args, line, ret, out, input, delim, stream, fds, hist,
                   procVars, dest>>
    /\ UNCHANGED <<encVars, writeVars>>

\* ----------------------------------------------- the single-shot consumers
\* A handle on a file, a string or a child's output, consumed by one
\* io_read_buf or io_load.
LoadBytes == {LF, LetterA, Colon, Space}

InitLoad ==
    /\ InitCommon
    /\ input \in SeqsUpTo(LoadBytes, MaxLoadLen)
    /\ delim = LF

NextLoad ==
    \/ \E name \in {"", "path", "toolong"}, sysOk \in BOOLEAN : IoOpen(name, sysOk)
    \/ \E allocOk \in BOOLEAN : IoFromString(allocOk)
    \/ \E sysOk \in BOOLEAN, forkOk \in BOOLEAN :
          IoRun("IO_RD", FALSE, "path", sysOk, forkOk, FALSE)
    \/ \E wstatus \in WaitStatuses : ChildExit(wstatus)
    \/ EnvReap
    \/ IoReadBuf
    \/ ReadBufGot
    \/ IoLoad
    \/ \E result \in {OK, ERR} : LoadGot(result)
    \/ GetScan
    \/ GetFill
    \/ DoneEnter
    \/ WaitIntr
    \/ WaitFail
    \/ WaitReap

SpecLoad == InitLoad /\ [][NextLoad]_vars

\* ----------------------------------- claims on the single-shot consumers
\* The bytes a successfully constructed handle delivers.
Source == IF hist.how = "string" THEN Str ELSE input

\* The tokens handed to the callback so far, in order.
CallTokens == [i \in 1 .. Len(calls) |-> calls[i].token]

LoadReturned == pc = "idle" /\ hist.op = "load"

\* C9: io_load calls the callback once per newline-delimited token, in
\* stream order; no call follows one that signalled failure; it stops when
\* the source is exhausted; and it returns ERR whenever a read failed, even
\* if every callback call succeeded.
C9_LoadCallbacks ==
    /\ IsPrefix(CallTokens, Tokens(Source, LF))
    /\ \A i \in 1 .. (Len(calls) - 1) : calls[i].result = OK
    /\ LoadReturned =>
          /\ hist.readFailed => state = ERR
          /\ (calls # <<>> /\ calls[Len(calls)].result # OK) =>
                state = calls[Len(calls)].result
          /\ (state = OK /\ ~hist.allocFailed) =>
                (CallTokens = Tokens(Source, LF) /\ stream = <<>>)

\* C9 witness: io_load returned ERR after a read error although it had
\* made callback calls and every one of them returned OK.
C9_Witness ==
    /\ LoadReturned
    /\ hist.readFailed
    /\ calls # <<>>
    /\ \A i \in 1 .. Len(calls) : calls[i].result = OK
    /\ state = ERR

ConsumerReturned == pc = "idle" /\ hist.op \in {"load", "read_buf"}

\* C10: io_read_buf and io_load call io_done exactly once on every path
\* before they return, so that afterwards the handle holds no descriptor,
\* no buffer and no unreaped child; io_read_buf succeeds only if both the
\* token extraction and io_done succeeded.
C10_ConsumersFinalize ==
    /\ hist.dones <= 1
    /\ ConsumerReturned =>
          /\ hist.dones = 1
          /\ io.pipe = -1
          /\ Retained = {}
          /\ io.buf = <<>> /\ io.bufalloc = 0 /\ io.bufsize = 0
          /\ io.pid = 0
          /\ child.state \in {"none", "gone"}
          /\ hist.op = "read_buf" => (ret => (~line.null /\ hist.doneRet))

\* C10 witness: io_read_buf got no token because the read of the child's
\* output failed; it still closed the pipe and reaped the child.
C10_Witness ==
    /\ ConsumerReturned
    /\ hist.op = "read_buf"
    /\ hist.how = "forked"
    /\ hist.readFailed /\ line.null
    /\ hist.waited = "pid"
    /\ hist.doneRet /\ ~ret

\* ------------------------------------------------------------ encoding_open
\* The charset names of the model, as the bytes of their C strings.
\* ENCODING_UTF8 is "UTF-8".
ENCODING_UTF8 == <<85, 84, 70, 45, 56>>
\* "utf-8", "latin1", "LATIN1"
Utf8Lower == <<117, 116, 102, 45, 56>>
Latin1 == <<108, 97, 116, 105, 110, 49>>
Latin1Upper == <<76, 65, 84, 73, 78, 49>>

\* The names encoding_open is called with: the empty name too.
EncNames == {<<>>, ENCODING_UTF8, Utf8Lower, Latin1, Latin1Upper}

\* tolower(), on ASCII.
ToLower(b) == IF b \in 65 .. 90 THEN b + 32 ELSE b

\* A comparison that tells upper case from lower case.
SameNameExact(a, b) == a = b

\* !strcasecmp(a, b)
SameName(a, b) ==
    /\ Len(a) = Len(b)
    /\ \A i \in 1 .. Len(a) : ToLower(a[i]) = ToLower(b[i])

\* The loop over the registry: the first record whose fromcode matches, as
\* its address; 0 for none.
Lookup(reg, fromcode) ==
    LET hits == {i \in 1 .. Len(reg) : SameName(reg[i].fromcode, fromcode)}
    IN  IF hits = {} THEN 0
        ELSE reg[CHOOSE i \in hits : \A j \in hits : i <= j].id

\* encoding_open(fromcode) on the registry reg: what it returns (ret, 0 for
\* NULL), the registry afterwards, whether a record was added, what became
\* of iconv_open ("none": not called), and whether the process died.  calloc
\* is not checked: when it fails, strncpy stores through a null pointer.
EncodingOpen(reg, fromcode, allocOk, cdOk) ==
    LET found == Lookup(reg, fromcode)
        new == [id |-> Len(reg) + 1, fromcode |-> fromcode]
        same == [ret |-> 0, reg |-> reg, created |-> FALSE, cd |-> "none",
                 crashed |-> FALSE]
    IN  IF fromcode = <<>> THEN same
        ELSE IF found # 0 THEN [same EXCEPT !.ret = found]
        ELSE IF ~allocOk THEN [same EXCEPT !.crashed = TRUE]
        ELSE IF ~cdOk THEN [same EXCEPT !.cd = "failed"]
        ELSE [ret |-> new.id, reg |-> <<new>> \o reg, created |-> TRUE, cd |-> "ok",
              crashed |-> FALSE]

\* The record of a call, kept for the claims: r is EncodingOpen's result.
EncCallAfter(op, path, fromcode, fallback, r, result, attr, file, sniffed) ==
    [op |-> op, path |-> path, fromcode |-> fromcode, fallback |-> fallback,
     ret |-> result,
     created |-> r.created, cd |-> r.cd,
     retried |-> \/ encCall.retried
                 \/ encCall.cd = "failed" /\ encCall.fromcode = fromcode /\ r.created,
     attr |-> attr, file |-> file, sniffed |-> sniffed]

\* A helper command that was not run.
NoHelper == [run |-> FALSE, out |-> <<>>, done |-> FALSE]

\* The program calls encoding_open(fromcode).
EncodingOpenCall(fromcode, allocOk, cdOk) ==
    /\ pc = "idle"
    /\ LET r == EncodingOpen(encodings, fromcode, allocOk, cdOk)
       IN  /\ encodings' = r.reg
           /\ encCall' = EncCallAfter("open", <<>>, fromcode, 0, r, r.ret, NoHelper,
                                      NoHelper, FALSE)
           /\ pc' = IF r.crashed THEN "crashed" ELSE pc
    /\ UNCHANGED <<io, caller, args, line, ret, out, input, delim, stream, fds, hist>>
    /\ UNCHANGED <<procVars, loadVars, writeVars>>

\* -------------------------------------------------------- get_path_encoding
\* ENCODING_SEP is ": encoding: ", CHARSET_SEP is "; charset=".
ENCODING_SEP == <<58, 32, 101, 110, 99, 111, 100, 105, 110, 103, 58, 32>>
CHARSET_SEP == <<59, 32, 99, 104, 97, 114, 115, 101, 116, 61>>
\* "unspecified", "set"
Unspecified == <<117, 110, 115, 112, 101, 99, 105, 102, 105, 101, 100>>
SetWord == <<115, 101, 116>>
\* sizeof(buf), buf being char buf[SIZEOF_STR]
SIZEOF_STR == 1024

\* strstr(hay, needle): the offset of the first occurrence, or -1.
Strstr(hay, needle) ==
    LET hits == {k \in 0 .. (Len(hay) - Len(needle)) :
                    SubSeq(hay, k + 1, k + Len(needle)) = needle}
    IN  IF hits = {} THEN -1 ELSE CHOOSE k \in hits : \A j \in hits : k <= j

\* The C string at offset k of s.
From(s, k) == SubSeq(s, k + 1, Len(s))

\* io_run_buf(argv, buf, bufsize) for a helper command h: run is whether
\* io_run launched it, out the bytes it prints, done what io_done makes of
\* its exit.  io_read_buf copies the first line, chomped, into buf, which
\* held old.
IoRunBuf(h, bufsize, old) ==
    IF ~h.run THEN [ok |-> FALSE, buf |-> old]
    ELSE LET eol == Memchr(h.out, 0, LF, Len(h.out))
             result == CStr(h.out, 0, IF eol = -1 THEN Len(h.out) ELSE eol)
         IN  IF h.out = <<>>
             THEN [ok |-> FALSE, buf |-> old]
             ELSE [ok |-> h.done,
                   buf |-> StringNcopy(bufsize, ChompString(result))]

\* !strcmp(encoding, ENCODING_UTF8) || !strcmp(encoding, "unspecified")
\* || !strcmp(encoding, "set")
NeedsSniff(encoding) == encoding \in {ENCODING_UTF8, Unspecified, SetWord}

\* get_path_encoding up to its last line: either the default encoding is
\* returned (open FALSE) or encoding_open is called with fromcode.
PathEncoding(path, attr, file) ==
    LET default == [open |-> FALSE, fromcode |-> <<>>, sniffed |-> FALSE]
        a == IoRunBuf(attr, SIZEOF_STR, <<>>)
        at == Strstr(a.buf, ENCODING_SEP)
        declared == From(a.buf, at + Len(ENCODING_SEP))
        f == IoRunBuf(file, SIZEOF_STR, a.buf)
        cs == Strstr(f.buf, CHARSET_SEP)
    IN  IF path = <<>> \/ ~a.ok \/ at = -1 THEN default
        ELSE IF NeedsSniff(declared)
        THEN IF ~f.ok \/ cs = -1 THEN [default EXCEPT !.sniffed = TRUE]
             ELSE [open |-> TRUE, fromcode |-> From(f.buf, cs + Len(CHARSET_SEP)),
                   sniffed |-> TRUE]
        ELSE [open |-> TRUE, fromcode |-> declared, sniffed |-> FALSE]

\* ------------------------------------------------------------ the transcoder
\* The path asked about ("p"), and the lines the helper commands print for
\* it: "p: encoding: <value>" and "p: text/plain; charset=<value>".
Path == <<112>>
TextPlain == <<58, 32, 116, 101, 120, 116, 47, 112, 108, 97, 105, 110>>
AttrLine(value) == Path \o ENCODING_SEP \o value \o <<LF>>
FileLine(value) == Path \o TextPlain \o CHARSET_SEP \o value \o <<LF>>

\* What git check-attr can do: fail to launch, print nothing, exit with a
\* failure, or print a declared encoding.
AttrHelpers ==
    {NoHelper,
     [run |-> TRUE, out |-> AttrLine(Latin1), done |-> FALSE],
     [run |-> TRUE, out |-> Path \o TextPlain \o <<LF>>, done |-> TRUE]}
    \cup {[run |-> TRUE, out |-> AttrLine(v), done |-> TRUE] :
            v \in {<<>>, Unspecified, SetWord, ENCODING_UTF8, Latin1}}

\* What file -I can do.  It matters only for a path whose declared encoding
\* is none of its own: empty, "unspecified", "set" or the canonical one.
SniffedFor ==
    {[run |-> TRUE, out |-> AttrLine(v), done |-> TRUE] :
        v \in {<<>>, Unspecified, SetWord, ENCODING_UTF8}}

FileHelpers ==
    {NoHelper,
     [run |-> TRUE, out |-> Path \o TextPlain \o <<LF>>, done |-> TRUE]}
    \cup {[run |-> TRUE, out |-> FileLine(v), done |-> TRUE] :
            v \in {<<>>, Utf8Lower, Latin1}}

\* PathEncoding, tabulated over these inputs.
PathEncodings ==
    [path \in {<<>>, Path}, attr \in AttrHelpers, file \in FileHelpers \cup {NoHelper} |->
        PathEncoding(path, attr, file)]

\* The program calls get_path_encoding(path, default_encoding); attr and
\* file are what the two helper commands do when run on path.
GetPathEncoding(path, fallback, attr, file, allocOk, cdOk) ==
    /\ pc = "idle"
    /\ LET p == PathEncodings[path, attr, file]
           r == IF p.open THEN EncodingOpen(encodings, p.fromcode, allocOk, cdOk)
                ELSE EncodingOpen(encodings, <<>>, allocOk, cdOk)
       IN  /\ encodings' = r.reg
           /\ encCall' = EncCallAfter("path", path, p.fromcode, fallback, r,
                                      IF p.open THEN r.ret ELSE fallback,
                                      attr, file, p.sniffed)
           /\ pc' = IF r.crashed THEN "crashed" ELSE pc
    /\ UNCHANGED <<io, caller, args, line, ret, out, input, delim, stream, fds, hist>>
    /\ UNCHANGED <<procVars, loadVars, writeVars>>

\* The records of the registry, by address.
Ids(reg) == {reg[i].id : i \in 1 .. Len(reg)}

InitEnc ==
    /\ InitCommon
    /\ input = <<>>
    /\ delim = LF

NextEnc ==
    \/ \E fromcode \in EncNames, allocOk \in BOOLEAN, cdOk \in BOOLEAN :
          EncodingOpenCall(fromcode, allocOk, cdOk)
    \/ \E path \in {<<>>, Path}, fallback \in {0} \cup Ids(encodings),
          attr \in AttrHelpers, allocOk \in BOOLEAN, cdOk \in BOOLEAN :
          \E file \in (IF attr \in SniffedFor THEN FileHelpers ELSE {NoHelper}) :
             GetPathEncoding(path, fallback, attr, file, allocOk, cdOk)

SpecEnc == InitEnc /\ [][NextEnc]_vars

\* ------------------------------------------------- claims on the transcoder
\* A name with its letters in lower case.
Lower(name) == [i \in 1 .. Len(name) |-> ToLower(name[i])]

EqualIgnoringCase(a, b) == Lower(a) = Lower(b)

\* The places of reg that hold a record for name, ignoring case.
Named(reg, name) == {i \in 1 .. Len(reg) : EqualIgnoringCase(reg[i].fromcode, name)}

OnePerName(reg) ==
    \A i, j \in 1 .. Len(reg) :
        EqualIgnoringCase(reg[i].fromcode, reg[j].fromcode) => i = j

\* C11: the registry holds at most one record per name ignoring case; a
\* step leaves it as it is or puts one new record in front of the others,
\* which are neither removed nor changed; encoding_open returns the record
\* already there for a name equal ignoring case, and that same record on
\* every later call; when the converter cannot be created it returns none
\* with the registry unchanged, and creation is attempted whenever no record
\* exists, whatever failed before.
C11_Registry ==
    [][/\ OnePerName(encodings')
       /\ \/ encodings' = encodings
          \/ /\ Len(encodings') = Len(encodings) + 1
             /\ Tail(encodings') = encodings
             /\ Head(encodings').id \notin Ids(encodings)
       /\ (encCall'.op = "open" /\ encCall' # encCall /\ pc' # "crashed") =>
             LET name == encCall'.fromcode
                 old == Named(encodings, name)
             IN  /\ old # {} =>
                       /\ encodings' = encodings
                       /\ \A i \in old : encCall'.ret = encodings[i].id
                 /\ encCall'.ret = 0 => encodings' = encodings
                 /\ encCall'.ret # 0 =>
                       \E i \in Named(encodings', name) :
                           encodings'[i].id = encCall'.ret
                 /\ (old = {} /\ name # <<>>) => encCall'.cd # "none"
                 /\ encCall'.cd = "failed" => encCall'.ret = 0]_vars

\* C11 witness: "utf-8" was asked for and the record made for "UTF-8" came
\* back, nothing being added to the two records of the registry, one of
\* which exists because a creation that had failed was tried again.
C11_Witness ==
    /\ encCall.op = "open"
    /\ encCall.fromcode = Utf8Lower
    /\ ~encCall.created
    /\ encCall.retried
    /\ Len(encodings) = 2
    /\ \E i \in 1 .. Len(encodings) :
          /\ encodings[i].id = encCall.ret
          /\ encodings[i].fromcode = ENCODING_UTF8

\* What a helper's output declares after marker: the rest of its first
\* line, without the white space around it; nothing when the helper failed
\* or the line has no marker.
Declared(h, marker) ==
    LET lines == Tokens(h.out, LF)
        at == Strstr(lines[1], marker)
    IN  IF ~h.run \/ ~h.done \/ lines = <<>> THEN [found |-> FALSE, value |-> <<>>]
        ELSE IF at = -1 THEN [found |-> FALSE, value |-> <<>>]
        ELSE [found |-> TRUE, value |-> ChompString(From(lines[1], at + Len(marker)))]

\* C13: get_path_encoding returns the fallback whenever the attribute query
\* and the sniffing command yield no usable charset distinct from the
\* canonical one (a helper fails, the marker is missing, the sniffed charset
\* is the canonical one, no converter can be opened); it never returns none
\* when a fallback was supplied; and an empty declared encoding is sniffed
\* like "unspecified", "set" and the canonical name.
C13_FallbackWhenUnusable ==
    (encCall.op = "path" /\ pc # "crashed") =>
        LET d == IF encCall.path = <<>> THEN [found |-> FALSE, value |-> <<>>]
                 ELSE Declared(encCall.attr, ENCODING_SEP)
            sniff == d.found /\ d.value \in {<<>>, Unspecified, SetWord, ENCODING_UTF8}
            s == Declared(encCall.file, CHARSET_SEP)
            charset == IF ~d.found THEN <<>>
                       ELSE IF ~sniff THEN d.value
                       ELSE IF s.found THEN s.value ELSE <<>>
            usable == /\ charset # <<>>
                      /\ ~EqualIgnoringCase(charset, ENCODING_UTF8)
                      /\ encCall.cd # "failed"
        IN  /\ ~usable => encCall.ret = encCall.fallback
            /\ encCall.fallback # 0 => encCall.ret # 0
            /\ sniff => encCall.sniffed

\* ----------------------------------------------------------------- io_write
\* write() can take bytes on fd: it is open and is the write end of the pipe
\* to the child.
Writable(fd) ==
    fd \in fds /\ hist.how = "forked" /\ hist.type = "IO_WR" /\ fd = hist.pipefds[2]

\* io_write(io, buf, bufsize) with data the bufsize bytes at buf: the loop
\* of write calls, EAGAIN and EINTR retried, ends with all of data written
\* or with an error after the first k bytes.  Nothing is written on a handle
\* that already has an error.
IoWrite(h, data, k) ==
    IF h.error # 0 \/ data = <<>>
    THEN [io |-> h, wrote |-> <<>>, ok |-> data = <<>>]
    ELSE IF ~Writable(h.pipe)
    THEN [io |-> [h EXCEPT !.error = EBADF], wrote |-> <<>>, ok |-> FALSE]
    ELSE IF k < Len(data)
    THEN [io |-> [h EXCEPT !.error = EIO], wrote |-> SubSeq(data, 1, k), ok |-> FALSE]
    ELSE [io |-> h, wrote |-> data, ok |-> TRUE]

\* ---------------------------------------------------------------- io_printf
\* FORMAT_BUFFER(buf, size, fmt, retval, FALSE) for a template and arguments
\* that expand to expansion: vsnprintf's result, turned into -1 when the
\* expansion and its terminator do not fit; buf then holds what did fit.
FormatBuffer(size, expansion) ==
    IF Len(expansion) >= size
    THEN [retval |-> -1, buf |-> SubSeq(expansion, 1, size - 1)]
    ELSE [retval |-> Len(expansion), buf |-> expansion]

\* An io_printf that writes whatever the scratch buffer holds.
PrintfFailsNever(retval) == FALSE

\* if (retval < 0)
PrintfFails(retval) == retval < 0

\* io_printf(io, fmt, ...); k is where write() fails, if it does.
IoPrintf(expansion, k) ==
    /\ pc = "idle"
    /\ hist.opened
    /\ fmt.calls < MaxPrintf
    /\ LET f == FormatBuffer(FmtSize, expansion)
           w == IoWrite(io, f.buf, k)
       IN  IF PrintfFails(f.retval)
           THEN /\ io' = [io EXCEPT !.error = ENAMETOOLONG]
                /\ ret' = FALSE
                /\ fmt' = [calls |-> fmt.calls + 1, expansion |-> expansion,
                           called |-> FALSE, given |-> <<>>]
                /\ UNCHANGED sink
           ELSE /\ io' = w.io
                /\ ret' = w.ok
                /\ sink' = sink \o w.wrote
                /\ fmt' = [calls |-> fmt.calls + 1, expansion |-> expansion,
                           called |-> TRUE, given |-> f.buf]
    /\ UNCHANGED <<pc, caller, args, line, out, input, delim, stream, fds, hist>>
    /\ UNCHANGED <<procVars, loadVars, encVars>>

\* The child of a Write-type handle reads its standard input to the end and
\* exits: it sees the end once no write end of the pipe is open, its own
\* copies having been closed before execvp.
ChildReadsEof ==
    /\ child.state = "running"
    /\ child.stdin = "pipe"
    /\ hist.pipefds[2] \notin fds
    /\ child' = [child EXCEPT !.state = "zombie", !.wstatus = WExitCode(0, 0)]
    /\ UNCHANGED <<io, pc, caller, args, line, ret, out, input, delim, stream, fds,
                   hist, signals, loadVars, encVars, writeVars>>

\* ------------------------------------------------------------- the writer
\* The expansions io_printf is given: up to two bytes more than fit.
Expansions == SeqsUpTo({LetterA, LF}, FmtSize + 1)

\* A Write-type handle that is written to and finalized.
NextWrite ==
    \/ \E virtual \in BOOLEAN, sysOk \in BOOLEAN, forkOk \in BOOLEAN :
          IoExec("IO_WR", virtual, -1, "path", sysOk, forkOk, FALSE)
    \/ \E expansion \in Expansions, k \in 0 .. FmtSize : IoPrintf(expansion, k)
    \/ ChildReadsEof
    \/ EnvReap
    \/ IoDone
    \/ DoneEnter
    \/ WaitIntr
    \/ WaitFail
    \/ WaitReap

SpecWrite == InitProc /\ [][NextWrite]_vars

\* ------------------------------------------------- claims on the writer
\* C12: an io_printf whose expansion does not fit the scratch buffer fails,
\* sets the error to ENAMETOOLONG and writes no byte: io_write is not called
\* and the descriptor receives nothing; when the expansion fits, io_write is
\* handed exactly its bytes, the descriptor receives a prefix of them, and
\* all of them when io_printf succeeds.
C12_PrintfOverflow ==
    [][fmt'.calls # fmt.calls =>
         IF Len(fmt'.expansion) >= FmtSize
         THEN /\ ~ret'
              /\ io'.error = ENAMETOOLONG
              /\ ~fmt'.called
              /\ sink' = sink
         ELSE /\ fmt'.called
              /\ fmt'.given = fmt'.expansion
              /\ \E n \in 0 .. Len(fmt'.given) :
                     sink' = sink \o SubSeq(fmt'.given, 1, n)
              /\ ret' => sink' = sink \o fmt'.given]_vars

\* C12 witness: after an io_printf that wrote its bytes to the child, one
\* whose expansion is too long has failed and left the descriptor alone.
C12_Witness ==
    /\ fmt.calls = 2
    /\ Len(fmt.expansion) >= FmtSize
    /\ ~fmt.called
    /\ ~ret
    /\ io.error = ENAMETOOLONG
    /\ sink = <<LetterA>>
    /\ child.state = "running"

\* --------------------------------------------------- claims on the buffer
\* The handle owns a buffer.
OwnsBuffer == hist.opened /\ io.buf # <<>>

\* The unread bytes: the bufsize bytes at bufpos.
Unread == SubSeq(io.buf, io.bufpos + 1, io.bufpos + io.bufsize)

\* The last n bytes of s.
Suffix(s, n) == SubSeq(s, Len(s) - n + 1, Len(s))

\* C14 as stated: on a handle made by io_from_string and read with io_get,
\* bufpos is in [buf, buf + bufalloc) and the bufsize bytes at bufpos are
\* unread data inside the buffer.
C14_BufposHalfOpen ==
    OwnsBuffer =>
        /\ 0 <= io.bufpos /\ io.bufpos < io.bufalloc
        /\ io.bufpos + io.bufsize <= io.bufalloc
        /\ Unread = Suffix(Str, io.bufsize)

\* C14 amended: bufpos is in the closed range [buf, buf + bufalloc], and it
\* is buf + bufalloc only when nothing is unread; the bufsize bytes at
\* bufpos are inside the buffer and are the part of the string not yet
\* handed out.
C14_BufposClosed ==
    OwnsBuffer =>
        /\ 0 <= io.bufpos /\ io.bufpos <= io.bufalloc
        /\ io.bufsize >= 0
        /\ io.bufpos + io.bufsize <= io.bufalloc
        /\ io.bufalloc <= Len(io.buf)
        /\ io.bufpos = io.bufalloc => io.bufsize = 0
        /\ Unread = Suffix(Str, io.bufsize)

\* C14 witness: the delimiter of the token just returned was the last byte
\* of a full buffer, and bufpos is now one past the buffer's capacity.
C14_Witness ==
    /\ OwnsBuffer /\ hist.how = "string"
    /\ pc = "idle" /\ hist.last = "token"
    /\ EndsWithNewline(Str)
    /\ io.bufalloc = Len(io.buf)
    /\ io.bufpos = io.bufalloc
    /\ io.bufsize = 0

C16_KillOnlyOwnChild ==
    [][(signals' # signals /\ KillDelivered(io.pid)) =>
          /\ hist.how = "forked"
          /\ hist.dones = 0
          /\ io.pid > 0
          /\ io.pid = child.pid
          /\ child.state \in {"running", "zombie"}]_vars

\* ------------------------------------------------- claims on io_get's stores
\* C17: every byte io_get stores, the terminator over a delimiter and the
\* terminator after the last token at EOF, is inside the memory allocated
\* for the buffer, for a handle made by io_from_string from a string of any
\* length.
C17_StoresInsideAllocation ==
    /\ ~hist.oob
    /\ pc # "crashed"

\* C18: once a read has failed, every later step of io_get on the handle
\* hands out no token, and the bytes a later read takes from the source are
\* added to the unread bytes, none being dropped.
C18_ReadFailureFinal ==
    [][hist.readFailed =>
          /\ line'.null
          /\ out' = out
          /\ io'.bufsize - io.bufsize = Len(stream) - Len(stream')]_vars

\* ------------------------------------------------------ claims on io_exec
\* C19: io_exec closes in the parent only descriptors it created: the
\* descriptor the caller supplied for an IO_AP launch is still open after
\* io_exec, whether fork succeeded or failed, and after io_done.
C19_CallerDescriptorKept ==
    CallerFd \in fds

\* ------------------------------------------------ finalizing a writer
\* The writer with the scheduling io_done relies on: io_done's own code runs
\* on (DoneEnter), a blocked waitpid returns once the child has terminated
\* (WaitReap) or fails once there is no child to wait for (WaitFail), and
\* the child, once its standard input is at its end, reads that end and
\* exits (ChildReadsEof).
SpecFin ==
    /\ InitProc
    /\ [][NextWrite]_vars
    /\ WF_vars(DoneEnter)
    /\ WF_vars(WaitReap)
    /\ WF_vars(WaitFail)
    /\ WF_vars(ChildReadsEof)

\* io_done is running: entered, or blocked in its wait loop.
InDone == pc \in {"done", "wait"}

\* C20: io_done closes the handle's descriptor before it waits, so for a
\* Write-type handle whose child reads its standard input to the end and
\* then exits, an io_done that has been entered returns; while it waits the
\* write end is closed in the parent; an interrupted wait changes nothing
\* and leaves io_done waiting, and a wait that reaped a child that exited
\* with status 0 is a success however often it was interrupted; a step of
\* io_done taken once the child has terminated is its return.
C20_DoneReturns ==
    /\ InDone ~> (pc = "idle")
    /\ [](pc = "wait" => hist.pipefds[2] \notin fds)
    /\ [][hist'.intr > hist.intr =>
            pc' = "wait" /\ io' = io /\ ret' = ret /\ child' = child]_vars
    /\ [][(pc = "wait" /\ pc' = "idle" /\ child.state = "zombie"
               /\ child'.state = "gone" /\ child.wstatus = WExitCode(0, 0)) =>
            hist'.doneRet /\ ret' /\ io'.error = 0]_vars
    /\ [][(pc = "wait" /\ child.state # "running" /\ <<io, pc, hist>>' # <<io, pc, hist>>)
            => pc' = "idle"]_vars

\* C20 witness: io_done on a Write-type handle closed the write end, waited
\* for the running child, was interrupted, reaped the child after it had
\* read the end of its input, and returned success.
C20_Witness ==
    /\ pc = "idle"
    /\ hist.type = "IO_WR" /\ hist.how = "forked"
    /\ hist.dones = 1
    /\ hist.intr >= 1
    /\ hist.waited = "pid"
    /\ child.state = "gone" /\ child.wstatus = WExitCode(0, 0)
    /\ hist.doneRet

====
